---- MODULE Spec2Model ----
(***************************************************************************)
(* Model of the code-generation core of oxidescript: the textual emitter   *)
(* (oxidescript/src/compiler/mod.rs) and the structural emitter            *)
(* (javascript-compiler/src/compile.rs).                                   *)
(*                                                                         *)
(* A Rust String is a sequence of tokens.  Every token stands for the      *)
(* characters it spells: the punctuation and whitespace of the format      *)
(* strings are one token per character, keywords are one token each, and   *)
(* the texts that come from the source tree (identifier names, literal     *)
(* texts) are sequences of tokens of their own.                            *)
(***************************************************************************)
EXTENDS Integers, Sequences, FiniteSets, TLC

VARIABLES program, idx, code, failed, oidx, body

vars == <<program, idx, code, failed, oidx, body>>

(***************************************************************************)
(* Bounds of the input trees.                                              *)
(***************************************************************************)
MaxStmts == 2
MaxBlockStmts == 1
MaxParams == 2

(***************************************************************************)
(* Option<T>: None is the empty sequence, Some(v) the one-element one.     *)
(***************************************************************************)
None == <<>>
Some(v) == <<v>>
IsSome(o) == Len(o) = 1
Unwrap(o) == o[1]

(***************************************************************************)
(* Source AST (crate::parser::ast), as the data model describes it.        *)
(***************************************************************************)
ExpressionVariants ==
    {"IdentifierExpression", "LiteralExpression", "UnaryExpression",
     "InfixExpression", "ArrayExpression", "CallExpression",
     "MemberAccessExpression", "IndexExpression", "BlockExpression",
     "IfExpression", "ForExpression"}

IdentifierExpression(ident) == [kind |-> "IdentifierExpression", ident |-> ident]
NumberLiteral(n) == [kind |-> "NumberLiteral", n |-> n]
StringLiteral(s) == [kind |-> "StringLiteral", s |-> s]
BooleanLiteral(b) == [kind |-> "BooleanLiteral", b |-> b]
LiteralExpression(literal) == [kind |-> "LiteralExpression", literal |-> literal]
UnaryExpression(op, arg) == [kind |-> "UnaryExpression", op |-> op, arg |-> arg]
InfixExpression(op, arg0, arg1) ==
    [kind |-> "InfixExpression", op |-> op, arg0 |-> arg0, arg1 |-> arg1]
ArrayExpression(exprs) == [kind |-> "ArrayExpression", exprs |-> exprs]
CallExpression(callee, args) ==
    [kind |-> "CallExpression", callee |-> callee, args |-> args]
MemberAccessExpression(expr, ident) ==
    [kind |-> "MemberAccessExpression", expr |-> expr, ident |-> ident]
IndexExpression(expr, index_expr) ==
    [kind |-> "IndexExpression", expr |-> expr, index_expr |-> index_expr]
Block(statements, return_value) ==
    [statements |-> statements, return_value |-> return_value]
BlockExpression(block) == [kind |-> "BlockExpression", block |-> block]
IfExpression(condition, then_branch, else_branch) ==
    [kind |-> "IfExpression", condition |-> condition,
     then_branch |-> then_branch, else_branch |-> else_branch]
ForExpression(loop_body) == [kind |-> "ForExpression", loop_body |-> loop_body]

ExpressionStatement(expression, has_semicolon) ==
    [kind |-> "ExpressionStatement", expression |-> expression,
     has_semicolon |-> has_semicolon]
DeclarationStatement(decl) == [kind |-> "DeclarationStatement", decl |-> decl]
ConstDeclaration(ident, expr) ==
    [kind |-> "ConstDeclaration", ident |-> ident, expr |-> expr]
LetDeclaration(ident, expr) ==
    [kind |-> "LetDeclaration", ident |-> ident, expr |-> expr]
FunctionDeclaration(name, parameters, fbody) ==
    [kind |-> "FunctionDeclaration", name |-> name, parameters |-> parameters,
     fbody |-> fbody]
Parameter(name, type_) == [name |-> name, type_ |-> type_]

(***************************************************************************)
(* Walks over a source tree: every expression and every statement that     *)
(* occurs in it, at any depth.                                             *)
(***************************************************************************)
RECURSIVE SubExpressions(_), StatementExpressions(_), BlockExpressions(_)
SubExpressions(e) ==
    {e} \cup
    CASE e.kind \in {"IdentifierExpression", "LiteralExpression"} -> {}
      [] e.kind = "UnaryExpression" -> SubExpressions(e.arg)
      [] e.kind = "InfixExpression" ->
            SubExpressions(e.arg0) \cup SubExpressions(e.arg1)
      [] e.kind = "ArrayExpression" ->
            UNION {SubExpressions(e.exprs[i]) : i \in DOMAIN e.exprs}
      [] e.kind = "CallExpression" ->
            SubExpressions(e.callee) \cup
            UNION {SubExpressions(e.args[i]) : i \in DOMAIN e.args}
      [] e.kind = "MemberAccessExpression" -> SubExpressions(e.expr)
      [] e.kind = "IndexExpression" ->
            SubExpressions(e.expr) \cup SubExpressions(e.index_expr)
      [] e.kind = "BlockExpression" -> BlockExpressions(e.block)
      [] e.kind = "IfExpression" ->
            SubExpressions(e.condition) \cup BlockExpressions(e.then_branch)
            \cup BlockExpressions(e.else_branch)
      [] e.kind = "ForExpression" -> BlockExpressions(e.loop_body)
BlockExpressions(b) ==
    UNION {StatementExpressions(b.statements[i]) : i \in DOMAIN b.statements}
    \cup (IF IsSome(b.return_value) THEN SubExpressions(Unwrap(b.return_value))
          ELSE {})
StatementExpressions(s) ==
    IF s.kind = "ExpressionStatement" THEN SubExpressions(s.expression)
    ELSE IF s.decl.kind = "FunctionDeclaration"
         THEN BlockExpressions(s.decl.fbody)
         ELSE SubExpressions(s.decl.expr)

ProgramExpressions(p) == UNION {StatementExpressions(p[i]) : i \in DOMAIN p}

\* The blocks an expression holds directly (not through a sub-expression).
OwnBlocks(e) ==
    CASE e.kind = "BlockExpression" -> {e.block}
      [] e.kind = "IfExpression" -> {e.then_branch, e.else_branch}
      [] e.kind = "ForExpression" -> {e.loop_body}
      [] OTHER -> {}

FunctionBodies(s) ==
    IF s.kind = "DeclarationStatement" /\ s.decl.kind = "FunctionDeclaration"
    THEN {s.decl.fbody} ELSE {}

BlockStatements(b) == {b.statements[i] : i \in DOMAIN b.statements}

RECURSIVE SubStatements(_)
SubStatements(s) ==
    {s} \cup
    UNION {SubStatements(t) :
             t \in UNION {BlockStatements(b) :
                            b \in FunctionBodies(s) \cup
                                  UNION {OwnBlocks(e) : e \in StatementExpressions(s)}}}

ProgramStatements(p) == UNION {SubStatements(p[i]) : i \in DOMAIN p}

(***************************************************************************)
(* Textual emitter: oxidescript/src/compiler/mod.rs                        *)
(***************************************************************************)
Default ==
    [code |-> <<>>, semicolon_allowed |-> FALSE, is_block |-> FALSE,
     evaluates_to |-> None]

FromStr(value) == [Default EXCEPT !.code = value]

\* push_str that puts the new text in front of what was accumulated.
push_str_front(acc, string) == string \o acc

push_str(acc, string) == acc \o string

RECURSIVE from_iter_loop(_, _)
from_iter_loop(outputs, acc) ==
    IF outputs = <<>> THEN acc
    ELSE from_iter_loop(Tail(outputs), push_str(acc, Head(outputs).code))

from_iter(outputs) == [Default EXCEPT !.code = from_iter_loop(outputs, <<>>)]

RECURSIVE join(_, _)
join(strings, sep) ==
    IF strings = <<>> THEN <<>>
    ELSE IF Len(strings) = 1 THEN strings[1]
    ELSE strings[1] \o sep \o join(Tail(strings), sep)

\* The expression variants Expression::compile has a match arm for.
TextualArms ==
    {"IdentifierExpression", "LiteralExpression", "UnaryExpression",
     "InfixExpression", "ArrayExpression", "CallExpression",
     "MemberAccessExpression", "IndexExpression", "BlockExpression"}

\* build_block that assigns the value after the closing brace.
build_block_assign_outside(block_output, eval) ==
    IF block_output.is_block /\ IsSome(block_output.evaluates_to)
    THEN <<"let", " ", "return_value", " ", "=", " ", "undefined", ";",
           "\n", "{", "\n">>
         \o block_output.code
         \o <<"}", "\n", "return_value", " ", "=", " ">>
         \o Unwrap(block_output.evaluates_to)
         \o <<";">>
         \o (IF eval THEN <<"\n", "return_value">> ELSE <<>>)
    ELSE block_output.code

\* build_block that materializes a value whatever eval says.
build_block_forced(block_output, eval) ==
    IF block_output.is_block /\ IsSome(block_output.evaluates_to)
    THEN <<"let", " ", "return_value", " ", "=", " ", "undefined", ";",
           "\n", "{", "\n">>
         \o block_output.code
         \o <<"return_value", " ", "=", " ">>
         \o Unwrap(block_output.evaluates_to)
         \o <<";", "\n", "}", ";", "\n", "return_value">>
    ELSE block_output.code

build_block(block_output, eval) ==
    IF block_output.is_block
    THEN IF IsSome(block_output.evaluates_to)
         THEN <<"let", " ", "return_value", " ", "=", " ", "undefined", ";",
                "\n", "{", "\n">>
              \o block_output.code
              \o <<"return_value", " ", "=", " ">>
              \o Unwrap(block_output.evaluates_to)
              \o <<";", "\n", "}">>
              \o (IF eval THEN <<";", "\n", "return_value">> ELSE <<>>)
         ELSE block_output.code
    ELSE block_output.code

\* A string text with its double quotes and backslashes escaped.
RECURSIVE escape(_)
escape(s) ==
    IF s = <<>> THEN <<>>
    ELSE (IF Head(s) \in {"\"", "\\"} THEN <<"\\", Head(s)>> ELSE <<Head(s)>>)
         \o escape(Tail(s))

\* Literal::compile that escapes the text of a string literal.
LiteralCompileEscaped(literal) ==
    CASE literal.kind = "NumberLiteral" ->
            [Default EXCEPT !.code = literal.n, !.semicolon_allowed = TRUE]
      [] literal.kind = "StringLiteral" ->
            [Default EXCEPT !.code = <<"\"">> \o escape(literal.s) \o <<"\"">>,
                            !.semicolon_allowed = TRUE]
      [] literal.kind = "BooleanLiteral" ->
            [Default EXCEPT !.code = IF literal.b THEN <<"true">> ELSE <<"false">>,
                            !.semicolon_allowed = TRUE]

LiteralCompile(literal) ==
    CASE literal.kind = "NumberLiteral" ->
            [Default EXCEPT !.code = literal.n, !.semicolon_allowed = TRUE]
      [] literal.kind = "StringLiteral" ->
            [Default EXCEPT !.code = <<"\"">> \o literal.s \o <<"\"">>,
                            !.semicolon_allowed = TRUE]
      [] literal.kind = "BooleanLiteral" ->
            [Default EXCEPT !.code = IF literal.b THEN <<"true">> ELSE <<"false">>,
                            !.semicolon_allowed = TRUE]

UnaryOperatorCompile(op) ==
    CASE op = "Not" -> FromStr(<<"!">>)
      [] op = "Minus" -> FromStr(<<"-">>)
      [] op = "Plus" -> FromStr(<<"+">>)

InfixOperatorCompile(op) ==
    CASE op = "Equal" -> FromStr(<<"=", "=">>)
      [] op = "NotEqual" -> FromStr(<<"!", "=">>)
      [] op = "GreaterThan" -> FromStr(<<">">>)
      [] op = "LessThan" -> FromStr(<<"<">>)
      [] op = "GreaterThanEqual" -> FromStr(<<">", "=">>)
      [] op = "LessThanEqual" -> FromStr(<<"<", "=">>)
      [] op = "Plus" -> FromStr(<<"+">>)
      [] op = "Minus" -> FromStr(<<"-">>)
      [] op = "Multiply" -> FromStr(<<"*">>)
      [] op = "Divide" -> FromStr(<<"/">>)
      [] op = "Modulo" -> FromStr(<<"%">>)

\* Parameter::compile that keeps the declared type as an annotation.
ParameterCompileTyped(parameter) ==
    [Default EXCEPT !.code = parameter.name \o <<":", " ">> \o parameter.type_]

ParameterCompile(parameter) == [Default EXCEPT !.code = parameter.name]

VecParameterCompile(parameters) ==
    [Default EXCEPT
       !.code = join([i \in DOMAIN parameters |->
                        ParameterCompile(parameters[i]).code], <<",", " ">>)]

RECURSIVE ExpressionCompile(_), StatementCompile(_), DeclarationCompile(_),
          BlockCompile(_), ProgramCompile(_), VecExpressionCompile(_)

\* The empty block treated like any other block: no collapse.
EmptyBlockOutputDeferred(return_value) ==
    [code |-> <<>>,
     semicolon_allowed |-> FALSE,
     is_block |-> TRUE,
     evaluates_to |-> IF IsSome(return_value)
                      THEN Some(Unwrap(return_value).code) ELSE None]

\* The BlockExpression arm when block.statements is empty.
EmptyBlockOutput(return_value) ==
    [Default EXCEPT
       !.code = <<"let", " ", "return_value", " ", "=", " ">>
                \o (IF IsSome(return_value) THEN Unwrap(return_value).code
                    ELSE <<"undefined">>)
                \o <<";">>]

ExpressionCompile(e) ==
    CASE e.kind = "IdentifierExpression" ->
            [Default EXCEPT !.code = e.ident, !.semicolon_allowed = TRUE]
      [] e.kind = "LiteralExpression" -> LiteralCompile(e.literal)
      [] e.kind = "UnaryExpression" ->
            LET op == UnaryOperatorCompile(e.op)
                arg == ExpressionCompile(e.arg)
            IN [Default EXCEPT !.code = op.code \o arg.code,
                               !.semicolon_allowed = arg.semicolon_allowed]
      [] e.kind = "InfixExpression" ->
            LET op == InfixOperatorCompile(e.op)
                arg0 == ExpressionCompile(e.arg0)
                arg1 == ExpressionCompile(e.arg1)
            IN [Default EXCEPT
                  !.code = arg0.code \o <<" ">> \o op.code \o <<" ">> \o arg1.code,
                  !.semicolon_allowed = arg1.semicolon_allowed]
      [] e.kind = "ArrayExpression" ->
            LET exprs == VecExpressionCompile(e.exprs)
            IN [Default EXCEPT !.code = <<"[">> \o exprs.code \o <<"]">>,
                               !.semicolon_allowed = TRUE]
      [] e.kind = "CallExpression" ->
            LET ident == ExpressionCompile(e.callee)
                args == VecExpressionCompile(e.args)
            IN [Default EXCEPT
                  !.code = ident.code \o <<"(">> \o args.code \o <<")">>,
                  !.semicolon_allowed = TRUE]
      [] e.kind = "MemberAccessExpression" ->
            LET expr == ExpressionCompile(e.expr)
            IN [Default EXCEPT !.code = expr.code \o <<".">> \o e.ident,
                               !.semicolon_allowed = TRUE]
      [] e.kind = "IndexExpression" ->
            LET expr == build_block(ExpressionCompile(e.expr), TRUE)
                index_expr == ExpressionCompile(e.index_expr)
            IN [Default EXCEPT
                  !.code = expr \o <<"[">> \o index_expr.code \o <<"]">>,
                  !.semicolon_allowed = TRUE]
      [] e.kind = "BlockExpression" ->
            LET return_value ==
                    IF IsSome(e.block.return_value)
                    THEN Some(ExpressionCompile(Unwrap(e.block.return_value)))
                    ELSE None
            IN IF e.block.statements = <<>>
               THEN EmptyBlockOutput(return_value)
               ELSE [code |-> ProgramCompile(e.block.statements).code,
                     semicolon_allowed |-> FALSE,
                     is_block |-> TRUE,
                     evaluates_to |-> IF IsSome(return_value)
                                      THEN Some(Unwrap(return_value).code)
                                      ELSE None]

VecExpressionCompile(exprs) ==
    [Default EXCEPT
       !.code = join([i \in DOMAIN exprs |-> ExpressionCompile(exprs[i]).code],
                     <<",", " ">>)]

\* The terminator and the newline Statement::compile appends.
Terminate(text, semicolon_allowed) ==
    text \o (IF semicolon_allowed THEN <<";">> ELSE <<>>) \o <<"\n">>

\* Statement::compile that terminates an expression statement only when the
\* source statement had a semicolon.
StatementCompileHonoring(s) ==
    LET statement == IF s.kind = "ExpressionStatement"
                     THEN ExpressionCompile(s.expression)
                     ELSE DeclarationCompile(s.decl)
    IN [Default EXCEPT
          !.code = Terminate(build_block(statement, FALSE),
                             /\ statement.semicolon_allowed
                             /\ (s.kind = "ExpressionStatement"
                                 => s.has_semicolon))]

StatementCompile(s) ==
    LET statement == IF s.kind = "ExpressionStatement"
                     THEN ExpressionCompile(s.expression)
                     ELSE DeclarationCompile(s.decl)
    IN [Default EXCEPT
          !.code = Terminate(build_block(statement, FALSE),
                             statement.semicolon_allowed)]

ProgramCompile(p) ==
    from_iter([i \in DOMAIN p |-> StatementCompile(p[i])])

\* Block::compile that lowers the function body's value the hoisted way.
BlockCompileHoisted(b) ==
    LET statements == from_iter([i \in DOMAIN b.statements |->
                                   StatementCompile(b.statements[i])])
    IN [Default EXCEPT
          !.code = IF IsSome(b.return_value)
                   THEN <<"{", "\n", "let", " ", "return_value", " ", "=", " ",
                          "undefined", ";", "\n">>
                        \o statements.code
                        \o <<"return_value", " ", "=", " ">>
                        \o ExpressionCompile(Unwrap(b.return_value)).code
                        \o <<";", "\n", "}">>
                   ELSE <<"{", "\n">> \o statements.code \o <<"}">>]

BlockCompile(b) ==
    LET statements == from_iter([i \in DOMAIN b.statements |->
                                   StatementCompile(b.statements[i])])
        return_value ==
            IF IsSome(b.return_value)
            THEN <<"return", " ">>
                 \o ExpressionCompile(Unwrap(b.return_value)).code
                 \o <<";", "\n">>
            ELSE <<>>
    IN [Default EXCEPT
          !.code = <<"{", "\n">> \o statements.code \o return_value \o <<"}">>]

DeclarationCompile(d) ==
    CASE d.kind = "ConstDeclaration" ->
            [Default EXCEPT
               !.code = <<"const", " ">> \o d.ident \o <<" ", "=", " ">>
                        \o ExpressionCompile(d.expr).code \o <<";">>]
      [] d.kind = "LetDeclaration" ->
            [Default EXCEPT
               !.code = <<"let", " ">> \o d.ident \o <<" ", "=", " ">>
                        \o ExpressionCompile(d.expr).code \o <<";">>]
      [] d.kind = "FunctionDeclaration" ->
            LET parameters == VecParameterCompile(d.parameters)
                fbody == BlockCompile(d.fbody)
            IN [Default EXCEPT
                  !.code = <<"function", " ">> \o d.name \o <<"(">>
                           \o parameters.code \o <<")", " ">> \o fbody.code]

\* A tree the textual emitter has a rule for at every expression.
SupportedStatement(s) ==
    \A e \in StatementExpressions(s) : e.kind \in TextualArms
SupportedExpression(e) ==
    \A x \in SubExpressions(e) : x.kind \in TextualArms

(***************************************************************************)
(* Structural emitter: javascript-compiler/src/compile.rs                  *)
(***************************************************************************)
Span(start, end) == <<start, end>>

\* The expression variants IntoOxc<Expression> has a match arm for.
StructuralArms ==
    {"IdentifierExpression", "LiteralExpression", "UnaryExpression",
     "InfixExpression", "ArrayExpression", "IfExpression", "BlockExpression",
     "CallExpression", "IndexExpression", "MemberAccessExpression",
     "ForExpression"}

\* iife whose closure has an expression body and takes the statements in
\* reverse.
iife_expression_body(stmts) ==
    [type |-> "CallExpression",
     span |-> Span(0, 0),
     callee |-> [type |-> "ArrowFunctionExpression",
                 span |-> Span(0, 0),
                 expression |-> TRUE,
                 async |-> FALSE,
                 type_parameters |-> None,
                 params |-> [span |-> Span(0, 0),
                             kind |-> "FormalParameter",
                             items |-> <<>>,
                             rest |-> None],
                 return_type |-> None,
                 body |-> [span |-> Span(0, 0),
                           directives |-> <<>>,
                           statements |->
                              [i \in 1..Len(stmts) |-> stmts[Len(stmts) + 1 - i]]]],
     type_parameters |-> None,
     arguments |-> <<>>,
     optional |-> FALSE]

iife(stmts) ==
    [type |-> "CallExpression",
     span |-> Span(0, 0),
     callee |-> [type |-> "ArrowFunctionExpression",
                 span |-> Span(0, 0),
                 expression |-> FALSE,
                 async |-> FALSE,
                 type_parameters |-> None,
                 params |-> [span |-> Span(0, 0),
                             kind |-> "FormalParameter",
                             items |-> <<>>,
                             rest |-> None],
                 return_type |-> None,
                 body |-> [span |-> Span(0, 0),
                           directives |-> <<>>,
                           statements |-> stmts]],
     type_parameters |-> None,
     arguments |-> <<>>,
     optional |-> FALSE]

\* Conversions of the sub-modules (ident, literal, function), as the design
\* describes them: one node per source node, synthetic span.
IdentifierIntoOxc(ident) ==
    [type |-> "Identifier", span |-> Span(0, 0), name |-> ident]
ReturnStatement(argument) ==
    [type |-> "ReturnStatement", span |-> Span(0, 0), argument |-> argument]
ParametersIntoOxc(parameters) ==
    [span |-> Span(0, 0),
     kind |-> "FormalParameter",
     items |-> [i \in DOMAIN parameters |->
                  IdentifierIntoOxc(parameters[i].name)],
     rest |-> None]

RECURSIVE ExpressionIntoOxc(_), StatementIntoOxc(_), BlockStatementsIntoOxc(_),
          VecExpressionIntoOxc(_)

\* statements of a block followed by a `return <value>` node
BlockStatementsIntoOxc(b) ==
    [i \in DOMAIN b.statements |-> StatementIntoOxc(b.statements[i])]
    \o (IF IsSome(b.return_value)
        THEN <<ReturnStatement(Some(ExpressionIntoOxc(Unwrap(b.return_value))))>>
        ELSE <<>>)

FunctionBodyIntoOxc(b) ==
    [span |-> Span(0, 0), directives |-> <<>>,
     statements |-> BlockStatementsIntoOxc(b)]

VecExpressionIntoOxc(exprs) ==
    [i \in DOMAIN exprs |-> ExpressionIntoOxc(exprs[i])]

ExpressionIntoOxc(e) ==
    CASE e.kind = "IdentifierExpression" -> IdentifierIntoOxc(e.ident)
      [] e.kind = "LiteralExpression" ->
            [type |-> "Literal", span |-> Span(0, 0), literal |-> e.literal]
      [] e.kind = "UnaryExpression" ->
            [type |-> "UnaryExpression", span |-> Span(0, 0),
             operator |-> e.op, argument |-> ExpressionIntoOxc(e.arg)]
      [] e.kind = "InfixExpression" ->
            [type |-> "BinaryExpression", span |-> Span(0, 0),
             left |-> ExpressionIntoOxc(e.arg0), operator |-> e.op,
             right |-> ExpressionIntoOxc(e.arg1)]
      [] e.kind = "ArrayExpression" ->
            [type |-> "ArrayExpression", span |-> Span(0, 0),
             elements |-> VecExpressionIntoOxc(e.exprs),
             trailing_comma |-> None]
      [] e.kind = "IfExpression" ->
            [type |-> "ConditionalExpression", span |-> Span(0, 0),
             test |-> ExpressionIntoOxc(e.condition),
             consequent |-> iife(BlockStatementsIntoOxc(e.then_branch)),
             alternate |-> iife(BlockStatementsIntoOxc(e.else_branch))]
      [] e.kind = "BlockExpression" -> iife(BlockStatementsIntoOxc(e.block))
      [] e.kind = "CallExpression" ->
            [type |-> "CallExpression", span |-> Span(0, 0),
             callee |-> ExpressionIntoOxc(e.callee),
             type_parameters |-> None,
             arguments |-> VecExpressionIntoOxc(e.args),
             optional |-> FALSE]
      [] e.kind = "IndexExpression" ->
            [type |-> "ComputedMemberExpression", span |-> Span(0, 0),
             object |-> ExpressionIntoOxc(e.expr),
             expression |-> ExpressionIntoOxc(e.index_expr)]
      [] e.kind = "MemberAccessExpression" ->
            [type |-> "StaticMemberExpression", span |-> Span(0, 0),
             object |-> ExpressionIntoOxc(e.expr),
             property |-> IdentifierIntoOxc(e.ident)]
      [] e.kind = "ForExpression" ->
            [type |-> "LoopExpression", span |-> Span(0, 0),
             closure |-> iife(BlockStatementsIntoOxc(e.loop_body))]

VariableDeclaration(kind, ident, expr) ==
    [type |-> "VariableDeclaration",
     span |-> Span(0, 0),
     kind |-> kind,
     declarations |-> <<[span |-> Span(0, 0),
                         kind |-> kind,
                         id |-> IdentifierIntoOxc(ident),
                         init |-> Some(ExpressionIntoOxc(expr)),
                         definite |-> FALSE]>>,
     declare |-> FALSE]

StatementIntoOxc(s) ==
    IF s.kind = "ExpressionStatement"
    THEN [type |-> "ExpressionStatement", span |-> Span(0, 0),
          expression |-> ExpressionIntoOxc(s.expression)]
    ELSE CASE s.decl.kind = "ConstDeclaration" ->
                VariableDeclaration("Const", s.decl.ident, s.decl.expr)
           [] s.decl.kind = "LetDeclaration" ->
                VariableDeclaration("Let", s.decl.ident, s.decl.expr)
           [] s.decl.kind = "FunctionDeclaration" ->
                [type |-> "FunctionDeclaration",
                 span |-> Span(0, 0),
                 id |-> Some(IdentifierIntoOxc(s.decl.name)),
                 generator |-> FALSE,
                 async |-> FALSE,
                 declare |-> FALSE,
                 type_parameters |-> None,
                 this_param |-> None,
                 params |-> ParametersIntoOxc(s.decl.parameters),
                 body |-> Some(FunctionBodyIntoOxc(s.decl.fbody)),
                 return_type |-> None,
                 scope_id |-> None]

\* Vec::from_iter_in: one more converted statement at the end of the body.
from_iter_in_push(vec, node) == Append(vec, node)

ProgramIntoOxc(stmts) ==
    [type |-> "Program",
     span |-> Span(0, 0),
     source_type |-> "default",
     source_text |-> <<>>,
     comments |-> <<>>,
     hashbang |-> None,
     directives |-> <<>>,
     body |-> stmts]

(***************************************************************************)
(* Input trees.                                                            *)
(***************************************************************************)
Seqs(S, n) == UNION {[1..k -> S] : k \in 0..n}

IdentA == IdentifierExpression(<<"a">>)
Number5 == LiteralExpression(NumberLiteral(<<"5">>))

Literals ==
    {Number5,
     LiteralExpression(NumberLiteral(<<"0", "1", ".", "5", "0">>)),
     LiteralExpression(StringLiteral(<<"f", "o", "o">>)),
     LiteralExpression(StringLiteral(<<"q", "\"", "\n">>)),
     LiteralExpression(StringLiteral(<<>>)),
     LiteralExpression(BooleanLiteral(TRUE)),
     LiteralExpression(BooleanLiteral(FALSE))}

OperandAtoms == {IdentA, Number5}

InnerStatements ==
    {ExpressionStatement(IdentifierExpression(<<"b">>), FALSE),
     DeclarationStatement(ConstDeclaration(<<"foo">>, Number5))}

LeafBlocks ==
    {Block(ss, rv) : ss \in Seqs(InnerStatements, MaxBlockStmts),
                     rv \in {None, Some(IdentifierExpression(<<"v">>))}}

Operands == OperandAtoms \cup {BlockExpression(b) : b \in LeafBlocks}

Level1 ==
    UNION {{UnaryExpression("Minus", x),
            InfixExpression("Plus", x, IdentA),
            InfixExpression("LessThanEqual", IdentA, x),
            ArrayExpression(<<x>>),
            ArrayExpression(<<Number5, x>>),
            CallExpression(x, <<>>),
            CallExpression(IdentifierExpression(<<"f">>), <<x, Number5>>),
            MemberAccessExpression(x, <<"len">>),
            IndexExpression(x, Number5),
            IndexExpression(IdentA, x)} : x \in Operands}

Level2 ==
    UNION {{UnaryExpression("Not", x),
            InfixExpression("Modulo", Number5, x)} : x \in Level1}

NestedBlocks ==
    {Block(<<ExpressionStatement(BlockExpression(b), TRUE)>>, rv) :
        b \in LeafBlocks, rv \in {None, Some(IdentifierExpression(<<"w">>))}}
    \cup
    {Block(ss, Some(BlockExpression(b))) :
        ss \in Seqs(InnerStatements, MaxBlockStmts), b \in LeafBlocks}

NoRuleExpressions ==
    {IfExpression(IdentA, Block(<<>>, Some(Number5)), Block(<<>>, Some(IdentA))),
     ForExpression(Block(<<ExpressionStatement(IdentA, TRUE)>>, None)),
     UnaryExpression("Minus",
        IfExpression(IdentA, Block(<<>>, Some(Number5)), Block(<<>>, None)))}

Expressions ==
    Literals \cup Operands \cup Level1 \cup Level2
    \cup {BlockExpression(b) : b \in NestedBlocks} \cup NoRuleExpressions

Parameters ==
    {Parameter(<<"foo">>, <<"string">>), Parameter(<<"foo">>, <<"number">>),
     Parameter(<<"bar">>, <<"number">>)}

Functions ==
    {FunctionDeclaration(<<"test">>, ps, b) :
        ps \in Seqs(Parameters, MaxParams),
        b \in {Block(<<>>, None),
               Block(<<DeclarationStatement(LetDeclaration(<<"baz">>, Number5))>>,
                     Some(IdentifierExpression(<<"baz">>)))}}
    \cup
    {FunctionDeclaration(<<"g">>, <<Parameter(<<"x">>, <<"number">>)>>, b) :
        b \in LeafBlocks \cup NestedBlocks}

Statements ==
    {ExpressionStatement(e, hs) : e \in Expressions, hs \in BOOLEAN}
    \cup {DeclarationStatement(ConstDeclaration(<<"c">>, e)) : e \in Expressions}
    \cup {DeclarationStatement(LetDeclaration(<<"l">>, e)) : e \in Expressions}
    \cup {DeclarationStatement(f) : f \in Functions}

TopStatements ==
    {ExpressionStatement(IdentifierExpression(<<"test">>), TRUE),
     ExpressionStatement(Number5, TRUE),
     DeclarationStatement(ConstDeclaration(<<"test">>, Number5)),
     DeclarationStatement(
        FunctionDeclaration(<<"test">>, <<>>, Block(<<>>, Some(IdentA)))),
     ExpressionStatement(BlockExpression(Block(<<>>, Some(Number5))), TRUE),
     ExpressionStatement(
        BlockExpression(
           Block(<<DeclarationStatement(ConstDeclaration(<<"foo">>, Number5))>>,
                 Some(IdentifierExpression(<<"foo">>)))), TRUE)}

Programs == {<<s>> : s \in Statements} \cup Seqs(TopStatements, MaxStmts)

(***************************************************************************)
(* The two emitters at work on one program.                                *)
(***************************************************************************)
Init ==
    /\ program \in Programs
    /\ idx = 0
    /\ code = <<>>
    /\ failed = FALSE
    /\ oidx = 0
    /\ body = <<>>

\* One iteration of from_iter's loop in Program::compile.
CompileNext ==
    /\ ~failed
    /\ idx < Len(program)
    /\ SupportedStatement(program[idx + 1])
    /\ code' = push_str(code, StatementCompile(program[idx + 1]).code)
    /\ idx' = idx + 1
    /\ UNCHANGED <<program, failed, oidx, body>>

\* Expression::compile meets a variant it has no arm for.
CompileNoRule ==
    /\ ~failed
    /\ idx < Len(program)
    /\ ~SupportedStatement(program[idx + 1])
    /\ failed' = TRUE
    /\ UNCHANGED <<program, idx, code, oidx, body>>

\* One iteration of Vec::from_iter_in in IntoOxc<Program>.
IntoOxcNext ==
    /\ oidx < Len(program)
    /\ body' = from_iter_in_push(body, StatementIntoOxc(program[oidx + 1]))
    /\ oidx' = oidx + 1
    /\ UNCHANGED <<program, idx, code, failed>>

Next == CompileNext \/ CompileNoRule \/ IntoOxcNext

Spec == Init /\ [][Next]_vars

CompileDone == ~failed /\ idx = Len(program)
IntoOxcDone == oidx = Len(program)

(***************************************************************************)
(* Properties.                                                             *)
(***************************************************************************)
\* The parts of the program the textual emitter has rules for.
ClaimStatements == {s \in ProgramStatements(program) : SupportedStatement(s)}
ClaimExpressions == {e \in ProgramExpressions(program) : SupportedExpression(e)}

StartsAt(text, pat, i) ==
    /\ i >= 1
    /\ i + Len(pat) - 1 <= Len(text)
    /\ SubSeq(text, i, i + Len(pat) - 1) = pat

IsBlockWithStatements(e) ==
    e.kind = "BlockExpression" /\ Len(e.block.statements) > 0
IsEmptyBlock(e) ==
    e.kind = "BlockExpression" /\ Len(e.block.statements) = 0

\* Length of the text of the first n top-level statements.
RECURSIVE Offset(_)
Offset(n) ==
    IF n = 0 THEN 0
    ELSE Offset(n - 1) + Len(StatementCompile(program[n]).code)

\* C1: order preservation.  The text emitted so far is the texts of the
\* statements consumed so far, the n-th occupying the positions right after
\* the (n-1)-th and before the (n+1)-th; the converted body holds one node
\* per consumed statement, the i-th being the conversion of the i-th
\* statement.
C1_OrderPreservation ==
    /\ Len(code) = Offset(idx)
    /\ \A n \in 1..idx :
          SubSeq(code, Offset(n - 1) + 1, Offset(n))
             = StatementCompile(program[n]).code
    /\ Len(body) = oidx
    /\ \A i \in 1..oidx : body[i] = StatementIntoOxc(program[i])
    /\ IntoOxcDone => Len(ProgramIntoOxc(body).body) = Len(program)

C1_Witness ==
    /\ CompileDone
    /\ IntoOxcDone
    /\ Len(program) >= 2
    /\ program[1].kind # program[2].kind
    /\ StatementCompile(program[1]).code # StatementCompile(program[2]).code

HoistHead ==
    <<"let", " ", "return_value", " ", "=", " ", "undefined", ";", "\n",
      "{", "\n">>

\* C2: block value hoisting.  An expression statement whose expression is a
\* block with statements and a return value V compiles to the hoisted
\* declaration, an opening brace, the block's compiled statements, the
\* assignment of V as the last line inside the braces, the closing brace and
\* a newline, with no `;` after the brace.
C2_BlockValueHoisting ==
    \A s \in ClaimStatements :
       (/\ s.kind = "ExpressionStatement"
        /\ IsBlockWithStatements(s.expression)
        /\ IsSome(s.expression.block.return_value))
       => LET b == s.expression.block
              V == ExpressionCompile(Unwrap(b.return_value)).code
              text == StatementCompile(s).code
          IN /\ text = HoistHead \o ProgramCompile(b.statements).code
                       \o <<"return_value", " ", "=", " ">> \o V
                       \o <<";", "\n", "}", "\n">>
             /\ (idx >= 1 /\ s = program[1]) => StartsAt(code, text, 1)

C2_Witness ==
    /\ CompileDone
    /\ Len(program) = 1
    /\ program[1].kind = "ExpressionStatement"
    /\ IsBlockWithStatements(program[1].expression)
    /\ IsSome(program[1].expression.block.return_value)
    /\ \E t \in BlockStatements(program[1].expression.block) :
          /\ t.kind = "ExpressionStatement"
          /\ IsBlockWithStatements(t.expression)
          /\ IsSome(t.expression.block.return_value)

\* Some occurrence of `first` in text is followed, later, by one of `second`.
ContainsInOrder(text, first, second) ==
    \E i \in 1..(Len(text) + 1) :
       /\ StartsAt(text, first, i)
       /\ \E j \in (i + Len(first))..(Len(text) + 1) : StartsAt(text, second, j)

\* C3: block value is never lost.  For every block expression with
\* statements and a return value V, wherever it occurs in the program, the
\* output of compile contains the compiled text of V after the compiled text
\* of the block's statements.
C3_BlockValueNeverLost ==
    (CompileDone /\ Len(program) >= 1) =>
       \A e \in ClaimExpressions :
          (IsBlockWithStatements(e) /\ IsSome(e.block.return_value))
          => ContainsInOrder(code,
                             ProgramCompile(e.block.statements).code,
                             ExpressionCompile(Unwrap(e.block.return_value)).code)

\* C4: empty-block collapse.  A block with no statements compiles to the
\* record with code `let return_value = <V or undefined>;`, is_block false,
\* evaluates_to None; as the expression of a statement it gives that text and
\* one newline.
C4_EmptyBlockCollapse ==
    /\ \A e \in ClaimExpressions :
          IsEmptyBlock(e)
          => LET r == ExpressionCompile(e)
                 V == IF IsSome(e.block.return_value)
                      THEN ExpressionCompile(Unwrap(e.block.return_value)).code
                      ELSE <<"undefined">>
             IN /\ r.code = <<"let", " ", "return_value", " ", "=", " ">>
                            \o V \o <<";">>
                /\ r.is_block = FALSE
                /\ r.evaluates_to = None
    /\ \A s \in ClaimStatements :
          (s.kind = "ExpressionStatement" /\ IsEmptyBlock(s.expression))
          => LET text == StatementCompile(s).code
             IN /\ text = ExpressionCompile(s.expression).code \o <<"\n">>
                /\ (idx >= 1 /\ s = program[1]) => StartsAt(code, text, 1)

C4_Witness ==
    /\ CompileDone
    /\ Len(program) = 1
    /\ program[1].kind = "ExpressionStatement"
    /\ IsEmptyBlock(program[1].expression)
    /\ IsSome(program[1].expression.block.return_value)
    /\ IsBlockWithStatements(Unwrap(program[1].expression.block.return_value))

IsFunctionStatement(s) ==
    s.kind = "DeclarationStatement" /\ s.decl.kind = "FunctionDeclaration"

\* C5: function return fidelity.  A function declaration compiles to its
\* header, `{`, the compiled body statements, `return <V>;` as the last line
\* when the body has a return value V (nothing when it has none), and `}`;
\* the hoisted form is not used for the body's own return value.
C5_FunctionReturnFidelity ==
    \A s \in ClaimStatements :
       IsFunctionStatement(s)
       => LET d == s.decl
              ret == IF IsSome(d.fbody.return_value)
                     THEN <<"return", " ">>
                          \o ExpressionCompile(Unwrap(d.fbody.return_value)).code
                          \o <<";", "\n">>
                     ELSE <<>>
              text == DeclarationCompile(d).code
          IN /\ text = <<"function", " ">> \o d.name \o <<"(">>
                       \o VecParameterCompile(d.parameters).code
                       \o <<")", " ", "{", "\n">>
                       \o ProgramCompile(d.fbody.statements).code
                       \o ret \o <<"}">>
             /\ (idx >= 1 /\ s = program[1])
                => StartsAt(code, text \o <<"\n">>, 1)

C5_Witness ==
    /\ CompileDone
    /\ Len(program) = 1
    /\ IsFunctionStatement(program[1])
    /\ Len(program[1].decl.fbody.statements) = 0
    /\ IsSome(program[1].decl.fbody.return_value)

\* C6: statement termination.  The text of every statement, of any kind and
\* at any depth, ends with exactly one newline, and before it with exactly one
\* `;` when the compiled record allows a semicolon and with no doubled `;`
\* otherwise.
C6_StatementTermination ==
    (CompileDone /\ Len(program) >= 1) =>
    \A s \in ClaimStatements :
       LET statement == IF s.kind = "ExpressionStatement"
                        THEN ExpressionCompile(s.expression)
                        ELSE DeclarationCompile(s.decl)
           text == StatementCompile(s).code
           n == Len(text)
       IN /\ n >= 1
          /\ text[n] = "\n"
          /\ n >= 2 => text[n - 1] # "\n"
          /\ statement.semicolon_allowed
             => /\ n >= 2
                /\ text[n - 1] = ";"
                /\ n >= 3 => text[n - 2] # ";"
          /\ ~statement.semicolon_allowed
             => ~(n >= 3 /\ text[n - 1] = ";" /\ text[n - 2] = ";")

\* C7: literal fidelity.  A number literal's text is reproduced as it is, a
\* boolean as true/false, a string's text between one pair of double
\* quotes, unchanged; the record allows a semicolon, is no block and has no
\* deferred value; as an expression statement a literal gives `<text>;\n`.
C7_LiteralFidelity ==
    /\ \A e \in ClaimExpressions :
          e.kind = "LiteralExpression"
          => LET l == e.literal
                 r == ExpressionCompile(e)
                 n == Len(r.code)
             IN /\ l.kind = "NumberLiteral" => r.code = l.n
                /\ l.kind = "BooleanLiteral"
                   => r.code = (IF l.b THEN <<"true">> ELSE <<"false">>)
                /\ l.kind = "StringLiteral"
                   => /\ n = Len(l.s) + 2
                      /\ r.code[1] = "\""
                      /\ r.code[n] = "\""
                      /\ SubSeq(r.code, 2, n - 1) = l.s
                /\ r.semicolon_allowed = TRUE
                /\ r.is_block = FALSE
                /\ r.evaluates_to = None
    /\ \A s \in ClaimStatements :
          (s.kind = "ExpressionStatement"
           /\ s.expression.kind = "LiteralExpression")
          => LET text == StatementCompile(s).code
             IN /\ text = ExpressionCompile(s.expression).code \o <<";", "\n">>
                /\ (idx >= 1 /\ s = program[1]) => StartsAt(code, text, 1)

C7_Witness ==
    /\ CompileDone
    /\ Len(program) = 1
    /\ program[1].kind = "ExpressionStatement"
    /\ program[1].expression.kind = "LiteralExpression"
    /\ program[1].expression.literal.kind = "StringLiteral"
    /\ \E i \in DOMAIN program[1].expression.literal.s :
          program[1].expression.literal.s[i] = "\""

\* C8: variant coverage.  Every expression variant of the data model has a
\* lowering rule in the textual and in the structural emitter, so neither
\* ever meets a construct it has no rule for.
C8_VariantCoverage ==
    /\ failed = FALSE
    /\ \A k \in 1..oidx :
          \A e \in StatementExpressions(program[k]) :
             e.kind \in TextualArms /\ e.kind \in StructuralArms

\* The names of a parameter list, separated by `, `.
RECURSIVE CommaSeparated(_)
CommaSeparated(names) ==
    IF Len(names) = 0 THEN <<>>
    ELSE IF Len(names) = 1 THEN names[1]
    ELSE CommaSeparated(SubSeq(names, 1, Len(names) - 1))
         \o <<",", " ">> \o names[Len(names)]

TypeNames == {<<"string">>, <<"number">>, <<"T">>}

Retyped(d, types) ==
    [d EXCEPT !.parameters =
        [i \in DOMAIN d.parameters |->
           Parameter(d.parameters[i].name, types[i])]]

\* C9: parameter type erasure.  The text between the parentheses of a
\* compiled function header is the parameter names, in order, joined by
\* `, `; declarations that differ only in the declared types of their
\* parameters compile to the same text.
C9_ParameterTypeErasure ==
    \A s \in ClaimStatements :
       IsFunctionStatement(s)
       => LET d == s.decl
              names == [i \in DOMAIN d.parameters |-> d.parameters[i].name]
              text == DeclarationCompile(d).code
          IN /\ StartsAt(text,
                         <<"function", " ">> \o d.name \o <<"(">>
                         \o CommaSeparated(names) \o <<")", " ", "{">>, 1)
             /\ \A types \in [DOMAIN d.parameters -> TypeNames] :
                   DeclarationCompile(Retyped(d, types)).code = text

C9_Witness ==
    /\ CompileDone
    /\ Len(program) = 1
    /\ IsFunctionStatement(program[1])
    /\ Len(program[1].decl.parameters) >= 2
    /\ program[1].decl.parameters[1].type_ # program[1].decl.parameters[2].type_
    /\ program[1].decl.parameters[1].name # program[1].decl.parameters[2].name

\* The records build_block is tried on: those compile produces for the
\* expressions of the program, with every combination of is_block and
\* evaluates_to.
ClaimRecords ==
    UNION {LET r == ExpressionCompile(e)
           IN {[r EXCEPT !.is_block = ib, !.evaluates_to = ev] :
                 ib \in BOOLEAN,
                 ev \in {None, r.evaluates_to, Some(<<"V">>)}} :
           e \in ClaimExpressions}

\* C10: block-materialization rule.  build_block returns the record's code
\* unchanged when it is no block and when it is a block without a value,
\* whatever force_into_value is; for a block with value V it returns the
\* hoisted declaration, the brace group holding the code and then
\* `return_value = V;`, followed by `;` and `return_value` exactly when
\* force_into_value is true.
C10_BlockMaterialization ==
    \A r \in ClaimRecords :
       LET plain == build_block(r, FALSE)
           forced == build_block(r, TRUE)
       IN /\ ~r.is_block => (plain = r.code /\ forced = r.code)
          /\ (r.is_block /\ ~IsSome(r.evaluates_to))
             => (plain = r.code /\ forced = r.code)
          /\ (r.is_block /\ IsSome(r.evaluates_to))
             => /\ plain = HoistHead \o r.code
                           \o <<"return_value", " ", "=", " ">>
                           \o Unwrap(r.evaluates_to) \o <<";", "\n", "}">>
                /\ forced = plain \o <<";", "\n", "return_value">>

C10_Witness ==
    /\ CompileDone
    /\ Len(program) >= 1
    /\ \E e \in ClaimExpressions :
          /\ e.kind = "IndexExpression"
          /\ IsBlockWithStatements(e.expr)
          /\ IsSome(e.expr.block.return_value)

IsHoistDeclarationAt(text, i) ==
    StartsAt(text, <<"let", " ", "return_value">>, i)

IsHoistAssignmentAt(text, i) ==
    /\ StartsAt(text, <<"return_value", " ", "=", " ">>, i)
    /\ ~(i >= 3 /\ text[i - 2] = "let")

\* Walk over a text with the stack of its open scopes (top level first), each
\* with the number of `let return_value` declarations seen directly in it.
\* TRUE when no scope declares return_value twice and every assignment
\* `return_value = ...` sits in a brace group that declares none itself and
\* whose enclosing scope declares one.
RECURSIVE ScopesResolve(_, _, _)
ScopesResolve(text, i, scopes) ==
    LET depth == Len(scopes)
    IN IF i > Len(text) THEN TRUE
       ELSE IF text[i] = "{" THEN ScopesResolve(text, i + 1, Append(scopes, 0))
       ELSE IF text[i] = "}"
            THEN /\ depth >= 2
                 /\ ScopesResolve(text, i + 1, SubSeq(scopes, 1, depth - 1))
       ELSE IF IsHoistDeclarationAt(text, i)
            THEN /\ scopes[depth] = 0
                 /\ ScopesResolve(text, i + 1, [scopes EXCEPT ![depth] = @ + 1])
       ELSE IF IsHoistAssignmentAt(text, i)
            THEN /\ depth >= 2
                 /\ scopes[depth] = 0
                 /\ scopes[depth - 1] = 1
                 /\ ScopesResolve(text, i + 1, scopes)
       ELSE ScopesResolve(text, i + 1, scopes)

\* C11: the hoisted binding is the one assigned.  In the output of compile
\* every assignment `return_value = <V>;` resolves to the `let return_value`
\* declared right above its brace group: that brace group declares no
\* return_value of its own, and no scope of the output (top level, brace
\* group, function body) declares return_value more than once.
C11_HoistedBindingAssigned ==
    (CompileDone /\ Len(program) >= 1) => ScopesResolve(code, 1, <<0>>)

\* Position of the `[` that opens the subscript of a compiled Index: the one
\* right after the materialized object.
SubscriptStart(e) == Len(build_block(ExpressionCompile(e.expr), TRUE)) + 1

\* C12: index over a block value.  Index(object, index) compiles to the
\* record with code build_block(compile(object), true) `[` index `]`,
\* semicolon allowed, no block, no deferred value; and when the object is a
\* block expression with a return value, with or without statements, the
\* token right before that `[` is the identifier return_value.
C12_IndexOverBlockValue ==
    (CompileDone /\ Len(program) >= 1) =>
    \A e \in ClaimExpressions :
       e.kind = "IndexExpression"
       => LET r == ExpressionCompile(e)
              k == SubscriptStart(e)
          IN /\ r.code = build_block(ExpressionCompile(e.expr), TRUE)
                         \o <<"[">> \o ExpressionCompile(e.index_expr).code
                         \o <<"]">>
             /\ r.semicolon_allowed = TRUE
             /\ r.is_block = FALSE
             /\ r.evaluates_to = None
             /\ (e.expr.kind = "BlockExpression"
                 /\ IsSome(e.expr.block.return_value))
                => (k >= 2 /\ r.code[k] = "[" /\ r.code[k - 1] = "return_value")

FlatKinds ==
    {"IdentifierExpression", "LiteralExpression", "UnaryExpression",
     "InfixExpression", "ArrayExpression", "CallExpression",
     "MemberAccessExpression"}

\* C13: flat-expression records.  An expression whose root is an identifier,
\* literal, unary, infix, array, call or member access, whatever its
\* sub-expressions are, compiles to a record that is no block, has no deferred
\* value and whose code holds no newline; a semicolon is allowed for
\* identifier, literal, array, call and member access, and for unary and
\* infix exactly when it is for the only or the rightmost operand.
C13_FlatExpressionRecords ==
    (CompileDone /\ Len(program) >= 1) =>
    \A e \in ClaimExpressions :
       e.kind \in FlatKinds
       => LET r == ExpressionCompile(e)
          IN /\ r.is_block = FALSE
             /\ r.evaluates_to = None
             /\ \A i \in DOMAIN r.code : r.code[i] # "\n"
             /\ e.kind \in {"IdentifierExpression", "LiteralExpression",
                            "ArrayExpression", "CallExpression",
                            "MemberAccessExpression"}
                => r.semicolon_allowed = TRUE
             /\ e.kind = "UnaryExpression"
                => r.semicolon_allowed = ExpressionCompile(e.arg).semicolon_allowed
             /\ e.kind = "InfixExpression"
                => r.semicolon_allowed = ExpressionCompile(e.arg1).semicolon_allowed

\* The statement sequences iife is tried on: the body converted so far and the
\* converted statements of every block of the program.
RECURSIVE StatementBlocks(_)
StatementBlocks(s) ==
    UNION {{b} \cup UNION {StatementBlocks(t) : t \in BlockStatements(b)} :
             b \in FunctionBodies(s) \cup
                   UNION {OwnBlocks(e) : e \in StatementExpressions(s)}}

ClaimBodies ==
    {body} \cup
    UNION {{BlockStatementsIntoOxc(b) : b \in StatementBlocks(program[k])} :
             k \in 1..oidx}

\* C14: shape of the immediately-invoked closure.  iife(body) is a call that
\* is not optional and has no arguments; its callee is an arrow function that
\* is not async, has a statement body, no parameters, no rest parameter and no
\* directives, and whose statements are body, same order and number; every
\* node built carries the span (0, 0).
C14_IifeShape ==
    \A stmts \in ClaimBodies :
       LET call == iife(stmts)
           arrow == call.callee
       IN /\ call.type = "CallExpression"
          /\ call.optional = FALSE
          /\ Len(call.arguments) = 0
          /\ arrow.type = "ArrowFunctionExpression"
          /\ arrow.async = FALSE
          /\ arrow.expression = FALSE
          /\ Len(arrow.params.items) = 0
          /\ arrow.params.rest = None
          /\ Len(arrow.body.directives) = 0
          /\ Len(arrow.body.statements) = Len(stmts)
          /\ \A i \in 1..Len(stmts) : arrow.body.statements[i] = stmts[i]
          /\ call.span = <<0, 0>>
          /\ arrow.span = <<0, 0>>
          /\ arrow.params.span = <<0, 0>>
          /\ arrow.body.span = <<0, 0>>

C14_Witness ==
    /\ IntoOxcDone
    /\ Len(body) >= 2
    /\ body[1] # body[2]
    /\ \E k \in 1..Len(program) :
          /\ program[k].kind = "ExpressionStatement"
          /\ IsBlockWithStatements(program[k].expression)
          /\ body[k].expression
                = iife(BlockStatementsIntoOxc(program[k].expression.block))

\* A tree with the has_semicolon flag of every expression statement, at any
\* depth, set to v.
RECURSIVE ExpressionWithSemicolons(_, _), StatementWithSemicolons(_, _),
          BlockWithSemicolons(_, _)
ExpressionWithSemicolons(e, v) ==
    CASE e.kind \in {"IdentifierExpression", "LiteralExpression"} -> e
      [] e.kind = "UnaryExpression" ->
            UnaryExpression(e.op, ExpressionWithSemicolons(e.arg, v))
      [] e.kind = "InfixExpression" ->
            InfixExpression(e.op, ExpressionWithSemicolons(e.arg0, v),
                            ExpressionWithSemicolons(e.arg1, v))
      [] e.kind = "ArrayExpression" ->
            ArrayExpression([i \in DOMAIN e.exprs |->
                               ExpressionWithSemicolons(e.exprs[i], v)])
      [] e.kind = "CallExpression" ->
            CallExpression(ExpressionWithSemicolons(e.callee, v),
                           [i \in DOMAIN e.args |->
                              ExpressionWithSemicolons(e.args[i], v)])
      [] e.kind = "MemberAccessExpression" ->
            MemberAccessExpression(ExpressionWithSemicolons(e.expr, v), e.ident)
      [] e.kind = "IndexExpression" ->
            IndexExpression(ExpressionWithSemicolons(e.expr, v),
                            ExpressionWithSemicolons(e.index_expr, v))
      [] e.kind = "BlockExpression" ->
            BlockExpression(BlockWithSemicolons(e.block, v))
      [] e.kind = "IfExpression" ->
            IfExpression(ExpressionWithSemicolons(e.condition, v),
                         BlockWithSemicolons(e.then_branch, v),
                         BlockWithSemicolons(e.else_branch, v))
      [] e.kind = "ForExpression" ->
            ForExpression(BlockWithSemicolons(e.loop_body, v))
BlockWithSemicolons(b, v) ==
    Block([i \in DOMAIN b.statements |->
             StatementWithSemicolons(b.statements[i], v)],
          IF IsSome(b.return_value)
          THEN Some(ExpressionWithSemicolons(Unwrap(b.return_value), v))
          ELSE None)
StatementWithSemicolons(s, v) ==
    IF s.kind = "ExpressionStatement"
    THEN ExpressionStatement(ExpressionWithSemicolons(s.expression, v), v)
    ELSE CASE s.decl.kind = "ConstDeclaration" ->
                DeclarationStatement(
                   ConstDeclaration(s.decl.ident,
                                    ExpressionWithSemicolons(s.decl.expr, v)))
           [] s.decl.kind = "LetDeclaration" ->
                DeclarationStatement(
                   LetDeclaration(s.decl.ident,
                                  ExpressionWithSemicolons(s.decl.expr, v)))
           [] s.decl.kind = "FunctionDeclaration" ->
                DeclarationStatement(
                   FunctionDeclaration(s.decl.name, s.decl.parameters,
                                       BlockWithSemicolons(s.decl.fbody, v)))

\* C15: independence from has_semicolon.  Programs that differ only in the
\* has_semicolon flags of their expression statements, at any depth, give
\* the same text and the same target tree: what was emitted for the program
\* is what is emitted for the program with every flag set, and with every
\* flag cleared; the `;` of a statement is appended exactly when its compiled
\* record allows a semicolon.
C15_HasSemicolonIndependence ==
    /\ \A v \in BOOLEAN :
          LET q == [k \in DOMAIN program |->
                      StatementWithSemicolons(program[k], v)]
          IN /\ code = from_iter([k \in 1..idx |-> StatementCompile(q[k])]).code
             /\ body = [k \in 1..oidx |-> StatementIntoOxc(q[k])]
    /\ \A s \in ClaimStatements :
          LET statement == IF s.kind = "ExpressionStatement"
                           THEN ExpressionCompile(s.expression)
                           ELSE DeclarationCompile(s.decl)
              text == StatementCompile(s).code
              stem == build_block(statement, FALSE)
          IN text = IF statement.semicolon_allowed
                    THEN stem \o <<";", "\n">>
                    ELSE stem \o <<"\n">>

C15_Witness ==
    /\ CompileDone
    /\ IntoOxcDone
    /\ Len(program) = 1
    /\ program[1].kind = "ExpressionStatement"
    /\ program[1].has_semicolon = TRUE
    /\ \E s \in ClaimStatements :
          /\ s # program[1]
          /\ s.kind = "ExpressionStatement"
          /\ s.has_semicolon = FALSE
          /\ ExpressionCompile(s.expression).semicolon_allowed

====
